---- MODULE Spec2Model ----
(***************************************************************************)
(* kstats: journal rotation and upload cycle of one KStats logger           *)
(* (src/kstats.js).  A cycle is one call of uploadStatsFromJournal: guard,  *)
(* rename journal -> journal.up, read journal.up, hand the contents to the  *)
(* upload function, unlink journal.up.  Every asynchronous completion       *)
(* (rename, read, upload callback, unlink) is one step, so calls, appends   *)
(* and completions interleave freely.                                       *)
(*                                                                         *)
(* Spec / FairSpec: cycles started by direct calls, with an upload function *)
(* supplied by the caller that calls back once, with an error or without.   *)
(* LoopSpec / FairLoopSpec: the uploadLoop call, its interval timer and the  *)
(* cycles the timer starts, whose upload function is the 'stackdriver'      *)
(* wrapper around uploadToStackdriver.                                      *)
(* ApiSpec: calls of the synchronous methods unixTimestamp, rejectedLines,  *)
(* _parseJournalStackdriverContents and logStat on sample arguments.        *)
(* PeerSpec: as Spec, with a second logger made with the same journal path  *)
(* whose calls are guarded by its own _uploading flag.                      *)
(* HttpSpec: one direct call of uploadToStackdriver on sample contents and  *)
(* the events of its http exchange (request 'error', response, response     *)
(* 'data', 'end', 'error'), each event one step.                            *)
(***************************************************************************)
EXTENDS Naturals, Integers, Sequences, FiniteSets, TLC

\* ------------------------------------------------------------------ bounds
\* number of uploadStatsFromJournal calls explored
MaxCalls == 3
\* number of lines logStat appends over a run
MaxLines == 2

Calls == 1..MaxCalls

\* ------------------------------------------------------------------- files
\* A file is absent, or present with its lines (a line is the ordinal of the
\* logStat call that wrote it, so every line of a run is distinct).
Absent == [exists |-> FALSE, data |-> <<>>]
File(d) == [exists |-> TRUE, data |-> d]

\* this.rejectedJournalLines: null, or an array of lines
NullStore == [isArray |-> FALSE, lines |-> <<>>]
ArrayStore(l) == [isArray |-> TRUE, lines |-> l]

\* uploadLoop's backendConfig argument: missing, or an object with or
\* without an apiKey
NoConfig == [present |-> FALSE, apiKey |-> FALSE]
Config(apiKey) == [present |-> TRUE, apiKey |-> apiKey]

\* no synchronous method has been called
NoCall == [op |-> "none", seq |-> 0]

VARIABLES
    journal,               \* the file at journalFileName
    capture,               \* the file at journalFileName + ".up" (capturedFileName)
    _uploading,            \* this._uploading, the in-flight flag of the logger
    peer_uploading,        \* the _uploading flag of a second logger that was
                           \* made with the same journal path
    cyc,                   \* per call of uploadStatsFromJournal: its closure and history
    nlog,                  \* number of lines appended so far
    rejectedJournalLines,  \* this.rejectedJournalLines
    backendConfig,         \* uploadLoop's backendConfig: given or not, with an apiKey or not
    uploader,              \* the uploadLoop call and its interval timer: notCalled,
                           \* thrown (no timer was made), armed, cleared
    backendName,           \* uploadLoop's backendName
    call                   \* the last call of a synchronous method: its arguments
                           \* and what it returned

vars == <<journal, capture, _uploading, peer_uploading, cyc, nlog, rejectedJournalLines, backendConfig, uploader, backendName, call>>

\* The closure of one uploadStatsFromJournal call (uploadCallback, contents,
\* err, debug, the point it has reached) and what it observed (history used
\* to state the properties).
NewCycle ==
    [pc |-> "new",            \* new, rename, read, upload, http, unlinkEmpty,
                              \* unlinkUploaded, thrown, done
     uploadCallback |-> "",   \* "caller" or "uploadToStackdriver"
     guardHit |-> FALSE,      \* returned at the _uploading guard
     ops |-> <<>>,            \* operations issued, in order
     renameRes |-> "none",    \* what renameFile reported
     readRes |-> "none",      \* what readFile reported
     contents |-> <<>>,       \* contents handed to uploadCallback
     upRes |-> "none",        \* what uploadCallback reported to the cycle
     sdRes |-> "none",        \* what uploadToStackdriver reported to the wrapper
     onError |-> <<>>,        \* messages uploadLoop handed to onError
     unlinkRes |-> "none",    \* what unlink reported
     deleted |-> Absent,      \* the file the unlink removed
     err |-> "none",          \* error handed to doneCallback
     debug |-> "",            \* err.debug
     flagAtDone |-> FALSE,    \* _uploading when doneCallback was invoked
     doneCalls |-> 0,         \* times doneCallback was invoked
     self |-> "this",         \* the logger the call was made on: "this" or "peer"
     logAtCall |-> 0,         \* nlog when the call was made
     capAtRename |-> Absent]  \* capture file the rename found

\* new KStats(config): rejectedJournalLines is null, _uploading is unset.
\* The empty journal file exists before the first write when the writer has
\* opened it; otherwise the first logStat creates it.
Init ==
    /\ journal \in {Absent, File(<<>>)}
    /\ capture = Absent
    /\ _uploading = FALSE
    /\ peer_uploading = FALSE
    /\ cyc = [k \in Calls |-> NewCycle]
    /\ nlog = 0
    /\ rejectedJournalLines = NullStore
    /\ backendConfig = Config(TRUE)
    /\ uploader = "notCalled"
    /\ backendName = "stackdriver"
    /\ call = NoCall

\* logStat: this.journal.write(line) appends one line to the journal file,
\* creating it when it is absent.
logStat ==
    /\ nlog < MaxLines
    /\ nlog' = nlog + 1
    /\ journal' = File(Append(journal.data, nlog + 1))
    /\ UNCHANGED <<capture, _uploading, peer_uploading, cyc, rejectedJournalLines, backendConfig, uploader, backendName, call>>

\* ------------------------------------------------- the environment's answers
\* QFputs.FileWriter.renameFile(journal, journal.up): it does not overwrite an
\* existing journal.up (EEXIST), fails on a missing journal (ENOENT), and may
\* fail for another reason (EACCES).  With journal.up present and the journal
\* missing, which of the two errors is reported is the library's choice.
RenameOutcomes(j, c) ==
    (IF c.exists THEN {"EEXIST"} ELSE {})
        \cup (IF ~j.exists THEN {"ENOENT"} ELSE {})
        \cup (IF j.exists /\ ~c.exists THEN {"ok"} ELSE {})
        \cup {"EACCES"}

\* fs.readFile(name): the file's contents, or an error
ReadOutcomes(f) == IF f.exists THEN {"ok", "EIO"} ELSE {"ENOENT"}

\* fs.unlink(name): removes the file, or an error
UnlinkOutcomes(f) == IF f.exists THEN {"ok", "EPERM"} ELSE {"ENOENT"}

\* what the caller's upload function reports to its callback
UploadOutcomes == {"ok", "uploadError"}

\* what the http exchange of uploadToStackdriver ends with: the request's
\* 'error', or the response's 'end' with a status below 300 or not
HttpOutcomes == {"requestError", "http2xx", "httpError"}

\* the file at a path
FileAt(path) == IF path = "journal" THEN journal ELSE capture

\* ------------------------------------------------------ uploadStatsFromJournal
\* self._uploading, for the logger self
Uploading(self) == IF self = "peer" THEN peer_uploading ELSE _uploading

\* self._uploading = v
SetUploading(self, v) ==
    IF self = "peer"
    THEN peer_uploading' = v /\ UNCHANGED _uploading
    ELSE _uploading' = v /\ UNCHANGED peer_uploading

\* the guard left out: every call goes on to rotate
NeverUploading == FALSE

\* if (self._uploading) return doneCallback()
AlreadyUploading == _uploading

\* the flag left as it was when the cycle starts
UploadingNotSet == _uploading

\* self._uploading = true
UploadingSet == TRUE

\* a doneCallback that drops the error it is given
doneCallbackSilent(c, err) == c.onError

\* the doneCallback of the caller.  uploadLoop's is
\* function(err) { if (err) onError(err, "stats upload error: ...") }
doneCallback(c, err) ==
    IF c.uploadCallback = "uploadToStackdriver" /\ err # "none"
    THEN Append(c.onError, "stats upload error")
    ELSE c.onError

\* returnToCaller without "self._uploading = false"
returnToCallerKeepsFlag(k, c, err, debugMessage) ==
    /\ UNCHANGED <<_uploading, peer_uploading>>
    /\ cyc' = [cyc EXCEPT ![k] = [c EXCEPT
            !.pc = "done",
            !.err = err,
            !.debug = IF err # "none" THEN debugMessage ELSE "",
            !.onError = doneCallback(c, err),
            !.doneCalls = @ + 1,
            !.flagAtDone = IF c.self = "peer" THEN peer_uploading'
                           ELSE _uploading']]

\* returnToCaller handing doneCallback the debug message when there is no
\* error: doneCallback(err || debugMessage)
returnToCallerReportsDebug(k, c, err, debugMessage) ==
    /\ SetUploading(c.self, FALSE)
    /\ cyc' = [cyc EXCEPT ![k] = [c EXCEPT
            !.pc = "done",
            !.err = IF err # "none" THEN err ELSE debugMessage,
            !.debug = debugMessage,
            !.onError = doneCallback(c, debugMessage),
            !.doneCalls = @ + 1,
            !.flagAtDone = IF c.self = "peer" THEN peer_uploading'
                           ELSE _uploading']]

\* returnToCaller without "err.debug = debugMessage"
returnToCallerDropsDebug(k, c, err, debugMessage) ==
    /\ SetUploading(c.self, FALSE)
    /\ cyc' = [cyc EXCEPT ![k] = [c EXCEPT
            !.pc = "done",
            !.err = err,
            !.debug = "",
            !.onError = doneCallback(c, err),
            !.doneCalls = @ + 1,
            !.flagAtDone = IF c.self = "peer" THEN peer_uploading'
                           ELSE _uploading']]

\* returnToCaller calling doneCallback a second time
returnToCallerTwice(k, c, err, debugMessage) ==
    /\ SetUploading(c.self, FALSE)
    /\ cyc' = [cyc EXCEPT ![k] = [c EXCEPT
            !.pc = "done",
            !.err = err,
            !.debug = IF err # "none" THEN debugMessage ELSE "",
            !.onError = doneCallback(c, err),
            !.doneCalls = @ + 2,
            !.flagAtDone = IF c.self = "peer" THEN peer_uploading'
                           ELSE _uploading']]

\* function returnToCaller( err, debugMessage ): clear the flag, annotate the
\* error, call doneCallback(err).  c is the closure as the caller left it.
returnToCaller(k, c, err, debugMessage) ==
    /\ SetUploading(c.self, FALSE)
    /\ cyc' = [cyc EXCEPT ![k] = [c EXCEPT
            !.pc = "done",
            !.err = err,
            !.debug = IF err # "none" THEN debugMessage ELSE "",
            !.onError = doneCallback(c, err),
            !.doneCalls = @ + 1,
            !.flagAtDone = IF c.self = "peer" THEN peer_uploading'
                           ELSE _uploading']]

\* the call itself: the guard, then the flag is set and the rename is issued
uploadStatsFromJournal(k, uploadCallback) ==
    /\ cyc[k].pc = "new"
    /\ \A j \in Calls : j < k => cyc[j].pc # "new"
    /\ UNCHANGED <<journal, capture, nlog, rejectedJournalLines, backendConfig, uploader, backendName, call>>
    /\ LET c == [cyc[k] EXCEPT !.uploadCallback = uploadCallback]
       IN  IF AlreadyUploading
           THEN /\ UNCHANGED <<_uploading, peer_uploading>>
                /\ cyc' = [cyc EXCEPT ![k] = [c EXCEPT
                        !.pc = "done",
                        !.guardHit = TRUE,
                        !.onError = doneCallback(c, "none"),
                        !.doneCalls = @ + 1,
                        !.flagAtDone = _uploading]]
           ELSE /\ _uploading' = UploadingSet
                /\ UNCHANGED peer_uploading
                /\ cyc' = [cyc EXCEPT ![k] = [c EXCEPT
                        !.pc = "rename",
                        !.ops = Append(@, "rename"),
                        !.logAtCall = nlog]]

\* a missing journal tolerated like an existing journal.up
RotationErrorLenient(r) == IF r \in {"ok", "EEXIST", "ENOENT"} THEN "none" ELSE r

\* EEXIST treated like any other rename error
RotationErrorStrict(r) == IF r = "ok" THEN "none" ELSE r

\* if (err && err.message.indexOf('EEXIST') >= 0) err = null
RotationError(r) == IF r \in {"ok", "EEXIST"} THEN "none" ELSE r

\* renameFile's callback
renameFileDone(k) ==
    /\ cyc[k].pc = "rename"
    /\ UNCHANGED <<nlog, rejectedJournalLines, backendConfig, uploader, backendName, call>>
    /\ \E r \in RenameOutcomes(journal, capture) :
        /\ journal' = IF r = "ok" THEN Absent ELSE journal
        /\ capture' = IF r = "ok" THEN journal ELSE capture
        /\ LET c == [cyc[k] EXCEPT !.renameRes = r, !.capAtRename = capture]
           IN  IF RotationError(r) # "none"
               THEN returnToCaller(k, c, RotationError(r),
                                   "error reading stats logfile journal")
               ELSE /\ UNCHANGED <<_uploading, peer_uploading>>
                    /\ cyc' = [cyc EXCEPT ![k] = [c EXCEPT
                            !.pc = "read",
                            !.ops = Append(@, "read")]]

\* the journal read or removed in place of the captured file
JournalPath == "journal"

\* fs.readFile(capturedFileName, ...): the path that is read
ReadTarget == "capture"

\* fs.unlink(capturedFileName, ...): the path that is removed
UnlinkTarget == "capture"

\* the upload callback without the return on error: the file is unlinked
\* whatever the upload reported
uploadCallbackAlwaysUnlinks(k, c, r) ==
    /\ UNCHANGED <<_uploading, peer_uploading>>
    /\ cyc' = [cyc EXCEPT ![k] = [c EXCEPT
            !.upRes = r,
            !.pc = "unlinkUploaded",
            !.ops = Append(@, "unlink")]]

\* function(err, response) handed to uploadCallback by uploadStatsFromJournal:
\* an error returns to the caller and keeps the file; success unlinks it
uploadCallbackReturned(k, c, r) ==
    IF r # "ok"
    THEN returnToCaller(k, [c EXCEPT !.upRes = r], r,
                        "error uploading stats to stackdriver: response")
    ELSE /\ UNCHANGED <<_uploading, peer_uploading>>
         /\ cyc' = [cyc EXCEPT ![k] = [c EXCEPT
                !.upRes = r,
                !.pc = "unlinkUploaded",
                !.ops = Append(@, "unlink")]]

\* ------------------------------------------------ uploadLoop, 'stackdriver'
\* the subsequence of s at the positions in S
SubSeqAt(s, S) ==
    LET F[i \in 0..Len(s)] ==
            IF i = 0 THEN <<>>
            ELSE IF i \in S THEN Append(F[i - 1], s[i]) ELSE F[i - 1]
    IN  F[Len(s)]

\* _parseJournalStackdriverContents: the lines at the positions in valid pass
\* the test (3 fields, collected less than two hours ago, finite value) and
\* become the data; the others are pushed onto rejectedJournalLines when it
\* is not null.  Which lines pass depends on their text and on the time of
\* the call.
parsedStore(store, contents, valid) ==
    IF store.isArray
    THEN ArrayStore(store.lines \o SubSeqAt(contents, (1..Len(contents)) \ valid))
    ELSE store

\* the callback the wrapper of uploadLoop hands to uploadToStackdriver:
\*   if (err) onError(err, ...)
\*   var rejectLines = statsLogger.rejectedLines([])
\*   if (rejectLines.length > 0) onError({}, ...)
\*   callback()
\* rejectedLines([]) installs a new array and returns the previous store;
\* when that is null, reading its length throws and callback is never called.
stackdriverCallback(k, c, store, sdErr) ==
    LET c1 == [c EXCEPT
                !.sdRes = IF sdErr = "none" THEN "ok" ELSE sdErr,
                !.onError = IF sdErr = "none" THEN @
                            ELSE Append(@, "error uploading stats to stackdriver")]
    IN  /\ rejectedJournalLines' = ArrayStore(<<>>)
        /\ IF ~store.isArray
           THEN /\ UNCHANGED <<_uploading, peer_uploading>>
                /\ cyc' = [cyc EXCEPT ![k] = [c1 EXCEPT !.pc = "thrown"]]
           ELSE uploadCallbackReturned(k,
                    [c1 EXCEPT !.onError =
                        IF Len(store.lines) > 0
                        THEN Append(@, "did not upload some stats lines")
                        ELSE @],
                    "ok")

\* uploadToStackdriver up to the request: a missing apiKey and an empty data
\* array call back at once, otherwise the POST is sent
uploadToStackdriver(k, c) ==
    IF ~backendConfig.apiKey
    THEN stackdriverCallback(k, c, rejectedJournalLines, "missing apiKey")
    ELSE \E valid \in SUBSET (1..Len(c.contents)) :
            LET store == parsedStore(rejectedJournalLines, c.contents, valid)
            IN  IF valid = {}
                THEN stackdriverCallback(k, c, store, "none")
                ELSE /\ rejectedJournalLines' = store
                     /\ UNCHANGED <<_uploading, peer_uploading>>
                     /\ cyc' = [cyc EXCEPT ![k] = [c EXCEPT !.pc = "http"]]

\* the end of the http exchange: cb(err) on the request's 'error', cb(new
\* Error("http error ..."), body) on a status >= 300, cb(null, body) otherwise
httpDone(k) ==
    /\ cyc[k].pc = "http"
    /\ UNCHANGED <<journal, capture, nlog, backendConfig, uploader, backendName, call>>
    /\ \E r \in HttpOutcomes :
        stackdriverCallback(k, cyc[k], rejectedJournalLines,
                            IF r = "http2xx" THEN "none" ELSE r)

\* ------------------------------------------- uploadStatsFromJournal, continued
\* a read error taken for a success
ReadErrorIgnored(r) == FALSE

\* if (err), in readFile's callback
ReadError(r) == r # "ok"

\* empty contents taken for contents to upload
NeverEmpty(contents) == FALSE

\* if (!contents), contents being contents.toString()
IsEmpty(contents) == contents = <<>>

\* readFile's callback: an error returns; empty contents are unlinked; other
\* contents go to uploadCallback
readFileDone(k) ==
    /\ cyc[k].pc = "read"
    /\ UNCHANGED <<journal, capture, nlog, backendConfig, uploader, backendName, call>>
    /\ \E r \in ReadOutcomes(FileAt(ReadTarget)) :
        LET c == [cyc[k] EXCEPT !.readRes = r]
            contents == FileAt(ReadTarget).data
        IN  IF ReadError(r)
            THEN /\ returnToCaller(k, c, r, "error reading stats logfile journal.up")
                 /\ UNCHANGED rejectedJournalLines
            ELSE IF IsEmpty(contents)
            THEN /\ UNCHANGED <<_uploading, peer_uploading, rejectedJournalLines>>
                 /\ cyc' = [cyc EXCEPT ![k] = [c EXCEPT
                        !.pc = "unlinkEmpty",
                        !.ops = Append(@, "unlink")]]
            ELSE LET cu == [c EXCEPT !.contents = contents,
                                     !.ops = Append(@, "upload")]
                 IN  IF c.uploadCallback = "uploadToStackdriver"
                     THEN uploadToStackdriver(k, cu)
                     ELSE /\ UNCHANGED <<_uploading, peer_uploading, rejectedJournalLines>>
                          /\ cyc' = [cyc EXCEPT ![k] = [cu EXCEPT !.pc = "upload"]]

\* the caller's upload function calls back
uploadDone(k) ==
    /\ cyc[k].pc = "upload"
    /\ UNCHANGED <<journal, capture, nlog, rejectedJournalLines, backendConfig, uploader, backendName, call>>
    /\ \E r \in UploadOutcomes : uploadCallbackReturned(k, cyc[k], r)

\* unlink's callback, for the empty file and for the uploaded file:
\* returnToCaller(err, debug) in both
unlinkDone(k) ==
    /\ cyc[k].pc \in {"unlinkEmpty", "unlinkUploaded"}
    /\ UNCHANGED <<nlog, rejectedJournalLines, backendConfig, uploader, backendName, call>>
    /\ \E r \in UnlinkOutcomes(FileAt(UnlinkTarget)) :
        /\ capture' = IF r = "ok" /\ UnlinkTarget = "capture" THEN Absent ELSE capture
        /\ journal' = IF r = "ok" /\ UnlinkTarget = "journal" THEN Absent ELSE journal
        /\ LET c == [cyc[k] EXCEPT
                        !.unlinkRes = r,
                        !.deleted = IF r = "ok" THEN FileAt(UnlinkTarget) ELSE Absent]
           IN  returnToCaller(k, c, IF r = "ok" THEN "none" ELSE r,
                    IF cyc[k].pc = "unlinkEmpty"
                    THEN "unable to remove empty stats file journal.up"
                    ELSE "unable to remove uploaded stats file journal.up")

\* ------------------------------------------------------------------ numbers
\* A JavaScript integer too large for one machine word of the checker is
\* kept as two limbs: Big(hi, lo) is hi * Limb + lo with 0 <= lo < Limb (hi
\* is negative for a negative integer).  Limb * Limb is 2^32.
Limb == 65536

Big(hi, lo) == [hi |-> hi, lo |-> lo]

\* the two limbs of a small integer
ToBig(i) == Big(i \div Limb, i % Limb)

\* a + d, for a small integer d
BigAdd(a, d) == Big(a.hi + ((a.lo + d) \div Limb), (a.lo + d) % Limb)

\* a < b
BigLess(a, b) == a.hi < b.hi \/ (a.hi = b.hi /\ a.lo < b.lo)

\* A count of milliseconds, or the integer a string of digits denotes, is
\* written q * 1000 + r with 0 <= r < 1000: q is its floor division by 1000.
Num(q, r) == [q |-> q, r |-> r]

\* the number of a small integer
ToNum(i) == Num(ToBig(i \div 1000), i % 1000)

\* the integer q * 1000 + r itself
Integer(n) ==
    Big(n.q.hi * 1000 + ((n.q.lo * 1000 + n.r) \div Limb),
        (n.q.lo * 1000 + n.r) % Limb)

\* x >>> 0 on an integer x: ToUint32, x modulo 2^32
ToUint32(x) == Big(x.hi % Limb, x.lo)

\* n / 1000 as >>> 0 takes it: the fraction is dropped toward zero
DivideBy1000(n) == IF n.q.hi < 0 /\ n.r > 0 THEN BigAdd(n.q, 1) ELSE n.q

\* ------------------------------------------------------------------ strings
\* A string without a blank or a newline, by what the code asks of it:
\*   digits   /^[0-9]+$/ matches: len digits denoting the integer n
\*   date     new Date(s) is the time n (milliseconds since the epoch, as for
\*            an ISO string); parseFloat(s) is its leading year
\*   number   the text of the finite number n that is not all digits ("-5")
\*   word     not a number, not a date ("unit.test.mem_rss")
\*   Infinity the text "Infinity"
\*   empty    ""
\* text is what tells two strings of a kind apart: the word, or the prefix
\* and the string behind it.
Str(kind, len, n, text, float) ==
    [type |-> "string", kind |-> kind, len |-> len, n |-> n, text |-> text,
     float |-> float]

\* what parseFloat returns: a finite number, NaN, or Infinity
Finite(v) == [kind |-> "finite", v |-> v]
NaN == [kind |-> "NaN", v |-> ToNum(0)]
Infinity == [kind |-> "Infinity", v |-> ToNum(0)]

Digits(len, n) == Str("digits", len, n, <<>>, Finite(n))
DateStr(n, year) == Str("date", 0, n, <<>>, Finite(ToNum(year)))
NumberStr(v) == Str("number", 0, v, <<>>, Finite(v))
Word(text) == Str("word", 0, ToNum(0), <<text>>, NaN)
InfinityStr == Str("Infinity", 0, ToNum(0), <<"Infinity">>, Infinity)
Empty == Str("empty", 0, ToNum(0), <<>>, NaN)

\* what is not a string: a number of milliseconds, or undefined
Number(n) == [type |-> "number", kind |-> "", len |-> 0, n |-> n, text |-> <<>>,
              float |-> Finite(n)]
Undefined == [type |-> "undefined", kind |-> "", len |-> 0, n |-> ToNum(0),
              text |-> <<>>, float |-> NaN]

\* unixTimestamp( timestamp ), called when Date.now() is now
unixTimestamp(timestamp, now) ==
    IF timestamp.type = "number"
    THEN ToUint32(DivideBy1000(timestamp.n))
    ELSE IF timestamp.type = "string" /\ timestamp.kind = "digits"
    THEN IF timestamp.len = 10
         THEN ToUint32(Integer(timestamp.n))
         ELSE ToUint32(DivideBy1000(timestamp.n))
    ELSE IF timestamp.type # "undefined"
    THEN IF timestamp.kind = "date"
         THEN ToUint32(DivideBy1000(timestamp.n))
         ELSE Big(0, 0)
    ELSE ToUint32(DivideBy1000(now))

\* fields.length === 3 relaxed to "at least 3"
AtLeastThreeFields(fields) == Len(fields) >= 3

\* fields.length === 3
ThreeFields(fields) == Len(fields) = 3

\* the rejected line put in front of the store instead of at its end
unshiftReject(store, line) ==
    IF store.isArray THEN ArrayStore(<<line>> \o store.lines) ELSE store

\* if (this.rejectedJournalLines) this.rejectedJournalLines.push(line)
pushReject(store, line) ==
    IF store.isArray THEN ArrayStore(Append(store.lines, line)) ELSE store

\* the milliseconds of "two hours ago": 7202000 ms are StaleSeconds seconds
StaleSeconds == 7202

\* _parseJournalStackdriverContents( journalContents ), called when Date.now()
\* is now and this.rejectedJournalLines is store.  journalContents is the
\* sequence journalContents.split("\n"), each line the sequence of its fields
\* line.split(' ') (the empty line is the one field ""); a string and the
\* sequence of its pieces determine each other.  Returns the data array and
\* the store with the rejected lines pushed (instance is left out of the
\* records: it is the same this.instance in all of them).
_parseJournalStackdriverContents(journalContents, store, now) ==
    LET twoHoursAgo ==
            unixTimestamp(Number(Num(BigAdd(now.q, 0 - StaleSeconds), now.r)), now)
        lines == journalContents
        Loop[i \in 0..Len(lines)] ==
            IF i = 0 THEN [data |-> <<>>, store |-> store]
            ELSE LET line == lines[i]
                     fields == line
                     collectedAtTimestamp == unixTimestamp(fields[1], now)
                     value == IF Len(fields) >= 3 THEN fields[3].float ELSE NaN
                 IN  IF line = <<Empty>> THEN Loop[i - 1]
                     ELSE IF /\ ThreeFields(fields)
                             /\ BigLess(twoHoursAgo, collectedAtTimestamp)
                             /\ value.kind = "finite"
                     THEN [data |-> Append(Loop[i - 1].data,
                                       [name |-> fields[2],
                                        value |-> value.v,
                                        collected_at |-> collectedAtTimestamp]),
                           store |-> Loop[i - 1].store]
                     ELSE [data |-> Loop[i - 1].data,
                           store |-> pushReject(Loop[i - 1].store, line)]
    IN  Loop[Len(lines)]

\* ------------------------------------------------------------ sample inputs
\* the time of the calls, in seconds since the epoch (2026-11-02)
NowSeconds == 1793577600

\* Date.now() at a call: on a full second or not
Nows == {Num(ToBig(NowSeconds), 0), Num(ToBig(NowSeconds), 250)}

\* the time d seconds and r milliseconds away from NowSeconds
At(d, r) == Num(BigAdd(ToBig(NowSeconds), d), r)

\* the time 2^32 seconds after n
Later(n) == Num(Big(n.q.hi + Limb, n.q.lo), n.r)

\* times in milliseconds: around now, around the two hours before now, the
\* epoch, before 1970 (-0.5 s, -1 s, -1.5 s, one year), one short of 2^32
\* seconds, 2^32 seconds, 2^32 seconds from now
Times ==
    {At(0, 0), At(0, 999), At(60, 0),
     At(1 - StaleSeconds, 0), At(0 - StaleSeconds, 0), At(0 - StaleSeconds, 999),
     At(0 - StaleSeconds - 1, 999), At(0 - 31536000, 0),
     ToNum(0), ToNum(999), ToNum(1500),
     ToNum(0 - 500), ToNum(0 - 1000), ToNum(0 - 1500),
     Num(ToBig(0 - 31536000), 0),
     Num(Big(Limb - 1, Limb - 1), 999), Later(ToNum(0)), Later(At(0, 0))}

\* strings of digits: of length 10 (seconds: now, stale, "0000000001",
\* "9999999999"), of length 13 (milliseconds: now, stale), "5", and
\* "99999999999999"
DigitStrings ==
    {Digits(10, ToNum(NowSeconds)), Digits(10, ToNum(NowSeconds - StaleSeconds)),
     Digits(10, ToNum(1)), Digits(10, Num(ToBig(9999999), 999)),
     Digits(13, At(0, 0)), Digits(13, At(0 - StaleSeconds, 0)),
     Digits(1, ToNum(5)),
     Digits(14, Num(Big(1525878, 59391), 999))}

\* date strings, with the year they start with
DateStrings ==
    {DateStr(At(0, 0), 2026), DateStr(At(0 - StaleSeconds - 1, 0), 2026),
     DateStr(ToNum(0 - 1000), 1969), DateStr(Later(At(0 - StaleSeconds - 1, 0)), 2162)}

\* the longest line, in fields, and the longest contents, in lines, explored
MaxFields == 4
MaxParseLines == 3

\* the sequences over S of length 1 to n
SeqsUpTo(S, n) == UNION {[1..m -> S] : m \in 1..n}

\* the strings the fields of a line are taken from: dates now, three hours
\* ago and in 1969, ten digits of now, "111", a word, "Infinity", ""
FieldStrings ==
    {DateStr(At(0, 0), 2026), DateStr(At(0 - StaleSeconds - 1, 0), 2026),
     DateStr(ToNum(0 - 1000), 1969), Digits(10, ToNum(NowSeconds)),
     Digits(3, ToNum(111)), Word("unit.test.mem_rss"), InfinityStr, Empty}

\* lines that contents of several lines are made of: two that are valid, a
\* stale one, one of two fields, the empty line
LineSamples ==
    {<<DateStr(At(0, 0), 2026), Word("unit.test.mem_rss"), Digits(3, ToNum(111))>>,
     <<Digits(10, ToNum(NowSeconds)), Word("unit.test.mem_rss"), Digits(1, ToNum(5))>>,
     <<DateStr(At(0 - StaleSeconds - 1, 0), 2026), Word("unit.test.mem_rss"),
       Digits(3, ToNum(111))>>,
     <<Word("unit.test.mem_rss"), Digits(3, ToNum(111))>>,
     <<Empty>>}

\* journal contents handed to the parser: every one line of up to MaxFields
\* fields, and up to MaxParseLines of the sample lines
ContentsInputs ==
    {<<line>> : line \in SeqsUpTo(FieldStrings, MaxFields)}
        \cup SeqsUpTo(LineSamples, MaxParseLines)

\* what unixTimestamp is called with
TimestampInputs ==
    {Number(t) : t \in Times} \cup DigitStrings \cup DateStrings
        \cup {Word("abc"), Empty, Undefined}

\* --------------------------------------------------- the synchronous methods
\* a logger on which rejectedLines has installed a store or not
ApiInit ==
    /\ journal = Absent
    /\ capture = Absent
    /\ _uploading = FALSE
    /\ peer_uploading = FALSE
    /\ cyc = [k \in Calls |-> NewCycle]
    /\ nlog = 0
    /\ rejectedJournalLines \in
            {NullStore, ArrayStore(<<>>), ArrayStore(<< <<Word("rejected")>> >>)}
    /\ backendConfig = Config(TRUE)
    /\ uploader = "notCalled"
    /\ backendName = "stackdriver"
    /\ call = NoCall

\* a call of _parseJournalStackdriverContents: the data is returned, the
\* rejects are in the store
parseCall ==
    /\ call.op \in {"none", "rejectedLines"}
    /\ \E journalContents \in ContentsInputs, now \in Nows :
        LET r == _parseJournalStackdriverContents(journalContents,
                                                  rejectedJournalLines, now)
        IN  /\ call' = [op |-> "_parseJournalStackdriverContents",
                        seq |-> call.seq + 1,
                        journalContents |-> journalContents, now |-> now,
                        before |-> rejectedJournalLines,
                        ret |-> r.data]
            /\ rejectedJournalLines' = r.store
    /\ UNCHANGED <<journal, capture, _uploading, peer_uploading, cyc, nlog, backendConfig,
                   uploader, backendName>>

\* the decimal digits of a number below one million
DigitCount(v) ==
    LET Count(i) == IF i < 10 THEN 1 ELSE IF i < 100 THEN 2 ELSE 3
    IN  IF v.q.lo = 0 THEN Count(v.r) ELSE 3 + Count(v.q.lo)

\* "" + value for a number: its digits, its text with a sign, "NaN",
\* "Infinity" (the finite numbers of the model are integers)
numberToString(value) ==
    IF value.kind = "finite"
    THEN IF value.v.q.hi >= 0 THEN Digits(DigitCount(value.v), value.v)
         ELSE NumberStr(value.v)
    ELSE IF value.kind = "NaN" THEN Word("NaN")
    ELSE InfinityStr

\* prefix + s for a string s without a blank: not a number and not a date,
\* whatever s is, the prefix being a host name or the like
Prefixed(prefix, s) == Str("word", 0, ToNum(0), <<prefix, s>>, NaN)

\* makeTimestamp(): new Date().toISOString()
makeTimestamp(now) == <<DateStr(now, 2026)>>

\* the line without the prefix
logStatLineNoPrefix(prefix, name, value, timestampString, now) ==
    (IF timestampString = <<Undefined>> THEN makeTimestamp(now) ELSE timestampString)
        \o name \o <<numberToString(value)>>

\* logStat( name, value, timestampString ): the line handed to journal.write,
\*   timestampString + " " + this.prefix + name + " " + value + "\n"
\* without its newline, as the sequence of its pieces between blanks.  name
\* and timestampString are such sequences too (one piece when they hold no
\* blank); timestampString may be <<Undefined>>.
logStatLine(prefix, name, value, timestampString, now) ==
    (IF timestampString = <<Undefined>> THEN makeTimestamp(now) ELSE timestampString)
        \o <<Prefixed(prefix, name[1])>> \o Tail(name)
        \o <<numberToString(value)>>

\* the arguments logStat is called with
NameInputs ==
    {<<Word("mem_rss")>>, <<Word("mem"), Word("rss")>>, <<Empty>>,
     <<Digits(3, ToNum(111))>>}

ValueInputs == {Finite(ToNum(111)), Finite(ToNum(0)), Finite(ToNum(0 - 5)), NaN, Infinity}

\* the two hours of the freshness window, in seconds
WindowSeconds == 7200

TimestampStringInputs ==
    {<<Undefined>>, <<DateStr(At(0, 0), 2026)>>, <<DateStr(At(1 - WindowSeconds, 0), 2026)>>,
     <<DateStr(At(0 - StaleSeconds, 0), 2026)>>,
     <<Digits(10, ToNum(NowSeconds))>>, <<Digits(13, At(0 - 60, 0))>>,
     <<Word("2026-11-02"), Word("12:00:00.000"), Word("EDT")>>}

\* logStat into a journal that collects the lines, then
\* _parseJournalStackdriverContents of what was written (the line and its
\* newline: the line, then the empty line)
logStatCall ==
    /\ call.op \in {"none", "rejectedLines"}
    /\ \E name \in NameInputs, value \in ValueInputs,
          timestampString \in TimestampStringInputs, now \in Nows :
        LET line == logStatLine("unit.test.", name, value, timestampString, now)
            r == _parseJournalStackdriverContents(<<line, <<Empty>>>>,
                                                  rejectedJournalLines, now)
        IN  /\ call' = [op |-> "logStat", seq |-> call.seq + 1,
                        prefix |-> "unit.test.", name |-> name, value |-> value,
                        timestampString |-> timestampString, now |-> now,
                        line |-> line,
                        before |-> rejectedJournalLines,
                        ret |-> r.data]
            /\ rejectedJournalLines' = r.store
    /\ UNCHANGED <<journal, capture, _uploading, peer_uploading, cyc, nlog, backendConfig,
                   uploader, backendName>>

\* the number of rejectedLines calls in a row explored
MaxSwaps == 2

\* what rejectedLines is called with: nothing, false, or an array
NoArgument == [kind |-> "undefined", store |-> NullStore]
False == [kind |-> "false", store |-> NullStore]
ArrayArgument(store) == [kind |-> "array", store |-> store]

RejectedLinesInputs ==
    {NoArgument, False, ArrayArgument(ArrayStore(<<>>)),
     ArrayArgument(ArrayStore(<< <<Word("mine")>> >>))}

\* rejectedLines installing a new empty array for whatever is not an array,
\* false included
rejectedLinesAlwaysInstalls(store, newSaveToArray) ==
    [ret |-> store,
     store |-> IF newSaveToArray.kind = "array" THEN newSaveToArray.store
               ELSE ArrayStore(<<>>)]

\* rejectedLines returning the store it has just installed
rejectedLinesReturnsNew(store, newSaveToArray) ==
    LET new == IF newSaveToArray.kind = "undefined"
               THEN ArrayArgument(ArrayStore(<<>>)) ELSE newSaveToArray
        installed == IF new.kind = "array" THEN new.store ELSE store
    IN  [ret |-> installed, store |-> installed]

\* rejectedLines( newSaveToArray ) with this.rejectedJournalLines being store:
\* what it returns and the store afterwards
rejectedLines(store, newSaveToArray) ==
    LET new == IF newSaveToArray.kind = "undefined"
               THEN ArrayArgument(ArrayStore(<<>>)) ELSE newSaveToArray
        currentArray == store
    IN  [ret |-> currentArray,
         store |-> IF new.kind = "array" THEN new.store ELSE store]

\* a call of rejectedLines
rejectedLinesCall ==
    /\ call.op \in {"none", "rejectedLines"}
    /\ call.seq < MaxSwaps
    /\ \E newSaveToArray \in RejectedLinesInputs :
        LET r == rejectedLines(rejectedJournalLines, newSaveToArray)
        IN  /\ call' = [op |-> "rejectedLines", seq |-> call.seq + 1,
                        newSaveToArray |-> newSaveToArray, ret |-> r.ret]
            /\ rejectedJournalLines' = r.store
    /\ UNCHANGED <<journal, capture, _uploading, peer_uploading, cyc, nlog, backendConfig,
                   uploader, backendName>>

\* a call of unixTimestamp
unixTimestampCall ==
    /\ call.op \in {"none", "rejectedLines"}
    /\ \E timestamp \in TimestampInputs, now \in Nows :
        call' = [op |-> "unixTimestamp", seq |-> call.seq + 1,
                 timestamp |-> timestamp, now |-> now,
                 ret |-> unixTimestamp(timestamp, now)]
    /\ UNCHANGED <<journal, capture, _uploading, peer_uploading, cyc, nlog, rejectedJournalLines,
                   backendConfig, uploader, backendName>>

ApiNext ==
    \/ unixTimestampCall
    \/ parseCall
    \/ logStatCall
    \/ rejectedLinesCall

ApiSpec == ApiInit /\ [][ApiNext]_vars

\* ------------------------------------------------- uploadToStackdriver, direct
\* chunks of a response body that one exchange delivers at most
MaxChunks == 2

\* one invocation of cb: its error and its second argument
Cb(err, ret) == [err |-> err, ret |-> ret]

\* if (!backendConfig.apiKey)
KeyMissing(config) == ~config.apiKey

\* a data array never taken for empty
NeverNoData(statsData) == FALSE

\* if (statsData.length <= 0)
NoData(statsData) == Len(statsData) <= 0

\* uploadToStackdriver with the apiKey tested after the parse
uploadToStackdriverParsesFirst(journalContents, config, store, now) ==
    LET r == _parseJournalStackdriverContents(journalContents, store, now)
    IN  IF KeyMissing(config)
        THEN [cbs |-> <<Cb("missing apiKey", "undefined")>>, posts |-> 0,
              store |-> r.store, data |-> <<>>]
        ELSE IF NoData(r.data)
        THEN [cbs |-> <<Cb("none", "{}")>>, posts |-> 0,
              store |-> r.store, data |-> <<>>]
        ELSE [cbs |-> <<>>, posts |-> 1, store |-> r.store, data |-> r.data]

\* uploadToStackdriver up to req.end(): the invocations of cb it has made, the
\* requests it has sent, the rejection store it leaves and the data it posted
uploadToStackdriverRequest(journalContents, config, store, now) ==
    IF KeyMissing(config)
    THEN [cbs |-> <<Cb("missing apiKey", "undefined")>>, posts |-> 0,
          store |-> store, data |-> <<>>]
    ELSE LET r == _parseJournalStackdriverContents(journalContents, store, now)
         IN  IF NoData(r.data)
             THEN [cbs |-> <<Cb("none", "{}")>>, posts |-> 0,
                   store |-> r.store, data |-> <<>>]
             ELSE [cbs |-> <<>>, posts |-> 1, store |-> r.store, data |-> r.data]

\* the contents uploadToStackdriver is called with
UploadInputs == SeqsUpTo(LineSamples, MaxParseLines)

HttpInit == ApiInit

\* a call of uploadToStackdriver(journalContents, backendConfig, cb); res is
\* the state of the response, listening whether the response got the
\* listeners of the request's callback
uploadToStackdriverCall ==
    /\ call.op = "none"
    /\ \E journalContents \in UploadInputs, now \in Nows,
          config \in {Config(TRUE), Config(FALSE)} :
        LET r == uploadToStackdriverRequest(journalContents, config,
                                            rejectedJournalLines, now)
        IN  /\ call' = [op |-> "uploadToStackdriver", seq |-> call.seq + 1,
                        journalContents |-> journalContents, now |-> now,
                        backendConfig |-> config,
                        before |-> rejectedJournalLines,
                        cbs |-> r.cbs, posts |-> r.posts, data |-> r.data,
                        erroredOut |-> FALSE, reqError |-> FALSE,
                        res |-> "none", listening |-> FALSE,
                        statusCode |-> 0, chunks |-> 0]
            /\ rejectedJournalLines' = r.store
    /\ UNCHANGED <<journal, capture, _uploading, peer_uploading, cyc, nlog, backendConfig,
                   uploader, backendName>>

\* the exchange of the call is under way
Requested == call.op = "uploadToStackdriver" /\ call.posts = 1

\* req.on('error'): erroredOut = true; cb(err).  The request fails before a
\* response or while the response is being received.
requestError ==
    /\ Requested /\ ~call.reqError
    /\ call.res \in {"none", "open"}
    /\ call' = [call EXCEPT !.reqError = TRUE, !.erroredOut = TRUE,
                            !.cbs = Append(@, Cb("request error", "undefined"))]
    /\ UNCHANGED <<journal, capture, _uploading, peer_uploading, cyc, nlog, rejectedJournalLines,
                   backendConfig, uploader, backendName>>

\* the callback of httpRequest: if (erroredOut) return; otherwise the
\* response gets its 'data', 'end' and 'error' listeners
response ==
    /\ Requested /\ call.res = "none"
    /\ \E statusCode \in {200, 400} :
        call' = [call EXCEPT !.res = "open", !.listening = ~call.erroredOut,
                             !.statusCode = statusCode]
    /\ UNCHANGED <<journal, capture, _uploading, peer_uploading, cyc, nlog, rejectedJournalLines,
                   backendConfig, uploader, backendName>>

\* res.on('data'): res.body += chunk
responseData ==
    /\ Requested /\ call.res = "open"
    /\ call.listening /\ call.chunks < MaxChunks
    /\ call' = [call EXCEPT !.chunks = @ + 1]
    /\ UNCHANGED <<journal, capture, _uploading, peer_uploading, cyc, nlog, rejectedJournalLines,
                   backendConfig, uploader, backendName>>

\* res.on('end'): cb(new Error("http error " + statusCode), res.body) on a
\* status of 300 or more, cb(null, res.body) otherwise
responseEnd ==
    /\ Requested /\ call.res = "open"
    /\ call' = [call EXCEPT
                    !.res = "ended",
                    !.cbs = IF ~call.listening THEN @
                            ELSE IF call.statusCode >= 300
                            THEN Append(@, Cb("http error", "body"))
                            ELSE Append(@, Cb("none", "body"))]
    /\ UNCHANGED <<journal, capture, _uploading, peer_uploading, cyc, nlog, rejectedJournalLines,
                   backendConfig, uploader, backendName>>

\* res.on('error'): cb(err)
responseError ==
    /\ Requested /\ call.res = "open"
    /\ call' = [call EXCEPT
                    !.res = "errored",
                    !.cbs = IF ~call.listening THEN @
                            ELSE Append(@, Cb("response error", "undefined"))]
    /\ UNCHANGED <<journal, capture, _uploading, peer_uploading, cyc, nlog, rejectedJournalLines,
                   backendConfig, uploader, backendName>>

HttpNext ==
    \/ uploadToStackdriverCall
    \/ requestError
    \/ response
    \/ responseData
    \/ responseEnd
    \/ responseError

HttpSpec == HttpInit /\ [][HttpNext]_vars

\* --------------------------------------------------------------- behaviours
\* direct calls with the caller's upload function
Next ==
    \/ logStat
    \/ \E k \in Calls : uploadStatsFromJournal(k, "caller")
    \/ \E k \in Calls : renameFileDone(k)
    \/ \E k \in Calls : readFileDone(k)
    \/ \E k \in Calls : uploadDone(k)
    \/ \E k \in Calls : unlinkDone(k)

Spec == Init /\ [][Next]_vars

\* uploadStatsFromJournal called on the second logger: the guard and the flag
\* are those of that logger, the journal path and so the two files are the
\* same
peerUploadStatsFromJournal(k, uploadCallback) ==
    /\ cyc[k].pc = "new"
    /\ \A j \in Calls : j < k => cyc[j].pc # "new"
    /\ UNCHANGED <<journal, capture, nlog, rejectedJournalLines, backendConfig, uploader, backendName, call>>
    /\ LET c == [cyc[k] EXCEPT !.uploadCallback = uploadCallback, !.self = "peer"]
       IN  IF Uploading("peer")
           THEN /\ UNCHANGED <<_uploading, peer_uploading>>
                /\ cyc' = [cyc EXCEPT ![k] = [c EXCEPT
                        !.pc = "done",
                        !.guardHit = TRUE,
                        !.onError = doneCallback(c, "none"),
                        !.doneCalls = @ + 1,
                        !.flagAtDone = Uploading("peer")]]
           ELSE /\ SetUploading("peer", TRUE)
                /\ cyc' = [cyc EXCEPT ![k] = [c EXCEPT
                        !.pc = "rename",
                        !.ops = Append(@, "rename"),
                        !.logAtCall = nlog]]

\* two loggers on one journal path: calls on either, appends, completions
PeerNext ==
    \/ logStat
    \/ \E k \in Calls : uploadStatsFromJournal(k, "caller")
    \/ \E k \in Calls : peerUploadStatsFromJournal(k, "caller")
    \/ \E k \in Calls : renameFileDone(k)
    \/ \E k \in Calls : readFileDone(k)
    \/ \E k \in Calls : uploadDone(k)
    \/ \E k \in Calls : unlinkDone(k)

PeerSpec == Init /\ [][PeerNext]_vars

\* a pending callback runs: a file operation completes, or the upload
\* function calls back
Completion ==
    \E k \in Calls :
        renameFileDone(k) \/ readFileDone(k) \/ uploadDone(k) \/ unlinkDone(k)

\* Every issued file operation completes and the upload function calls back:
\* the event loop does not leave a pending callback waiting for ever.
FairSpec == Spec /\ WF_vars(Completion)

\* a logger whose reject store is still null or was installed with
\* rejectedLines([]), before uploadLoop(journal, backendName, backendConfig,
\* interval, onError) is called with a known or an unknown backend name and
\* with or without a backendConfig
LoopInit ==
    /\ journal \in {Absent, File(<<>>)}
    /\ capture = Absent
    /\ _uploading = FALSE
    /\ peer_uploading = FALSE
    /\ cyc = [k \in Calls |-> NewCycle]
    /\ nlog = 0
    /\ rejectedJournalLines \in {NullStore, ArrayStore(<<>>)}
    /\ backendConfig \in {NoConfig, Config(TRUE), Config(FALSE)}
    /\ uploader = "notCalled"
    /\ backendName \in {"stackdriver", "statsd"}
    /\ call = NoCall

\* uploadLoop with every backend name taken for a known one
AnyBackendKnown(name) == TRUE

\* switch (backendName) { case 'stackdriver': ...; default: throw }
BackendKnown(name) == name = "stackdriver"

\* uploadLoop: throws when backendConfig is missing or the backend is not
\* known, before setInterval; otherwise arms the timer and returns it
uploadLoop ==
    /\ uploader = "notCalled"
    /\ uploader' = IF ~backendConfig.present THEN "thrown"
                   ELSE IF ~BackendKnown(backendName) THEN "thrown"
                   ELSE "armed"
    /\ UNCHANGED <<journal, capture, _uploading, peer_uploading, cyc, nlog, rejectedJournalLines,
                   backendConfig, backendName, call>>

\* the interval timer fires: function() { statsLogger.uploadStatsFromJournal(
\* statsLogfileName, uploadStatsFunc, function(err, ret) {...}) }
uploadLoopTick(k) ==
    /\ uploader = "armed"
    /\ uploadStatsFromJournal(k, "uploadToStackdriver")

\* clearInterval(uploader) by the caller of uploadLoop
clearInterval ==
    /\ uploader = "armed"
    /\ uploader' = "cleared"
    /\ UNCHANGED <<journal, capture, _uploading, peer_uploading, cyc, nlog, rejectedJournalLines,
                   backendConfig, backendName, call>>

LoopNext ==
    \/ logStat
    \/ uploadLoop
    \/ clearInterval
    \/ \E k \in Calls : uploadLoopTick(k)
    \/ \E k \in Calls : renameFileDone(k)
    \/ \E k \in Calls : readFileDone(k)
    \/ \E k \in Calls : httpDone(k)
    \/ \E k \in Calls : unlinkDone(k)

LoopSpec == LoopInit /\ [][LoopNext]_vars

\* a pending callback of a cycle of uploadLoop runs
LoopCompletion ==
    \E k \in Calls :
        renameFileDone(k) \/ readFileDone(k) \/ httpDone(k) \/ unlinkDone(k)

\* every issued file operation and every http exchange completes
FairLoopSpec == LoopSpec /\ WF_vars(LoopCompletion)

\* ================================================================ properties
Has(seq, x) == \E i \in DOMAIN seq : seq[i] = x

\* the lines of a sequence of lines
LinesOf(seq) == {seq[i] : i \in DOMAIN seq}

\* cycle k is past the guard and has not called doneCallback
InFlight(k) == cyc[k].pc \notin {"new", "done"}

\* cycle k is the first call made after cycle j ended: every call between
\* them was made while j was in flight and returned at the guard
NextCallAfter(j, k) ==
    /\ j < k
    /\ cyc[j].pc = "done" /\ ~cyc[j].guardHit
    /\ cyc[k].pc # "new" /\ ~cyc[k].guardHit
    /\ \A m \in Calls : (j < m /\ m < k) => cyc[m].guardHit

\* C1: a call of uploadStatsFromJournal made while _uploading is true calls
\* doneCallback in the same step with no error, issues no rename, read,
\* upload or unlink, changes neither file nor any other cycle, and leaves
\* _uploading true.
C1_GuardReturnsAtOnce ==
    [][\A k \in Calls :
        (cyc[k].pc = "new" /\ cyc'[k].pc # "new" /\ _uploading) =>
            /\ cyc'[k].pc = "done"
            /\ cyc'[k].err = "none"
            /\ cyc'[k].ops = <<>>
            /\ _uploading'
            /\ journal' = journal
            /\ capture' = capture
            /\ rejectedJournalLines' = rejectedJournalLines
            /\ \A j \in Calls : j # k => cyc'[j] = cyc[j]]_vars

\* a call returned at the guard while an earlier cycle was waiting for its
\* upload function
C1_Witness ==
    \E j, k \in Calls :
        /\ j < k
        /\ cyc[j].pc = "upload"
        /\ cyc[k].pc = "done" /\ cyc[k].guardHit /\ _uploading

\* C2: under FairSpec, whenever a cycle is past the guard _uploading is
\* false again later, and _uploading is false when the doneCallback of a
\* cycle that passed the guard is invoked, whichever way the cycle ends.
C2_FlagClearedOnEveryExit ==
    /\ (\E k \in Calls : InFlight(k)) ~> ~_uploading
    /\ [](\A k \in Calls :
            (cyc[k].pc = "done" /\ ~cyc[k].guardHit) => ~cyc[k].flagAtDone)

\* three cycles have ended three ways: a rotation error, an upload error, a
\* failed unlink after a successful upload, each with the flag cleared
C2_Witness ==
    \E a, b, c \in Calls :
        /\ cyc[a].pc = "done" /\ cyc[a].renameRes = "ENOENT" /\ ~cyc[a].flagAtDone
        /\ cyc[b].pc = "done" /\ cyc[b].upRes = "uploadError" /\ ~cyc[b].flagAtDone
        /\ cyc[c].pc = "done" /\ cyc[c].upRes = "ok" /\ cyc[c].unlinkRes = "EPERM"
        /\ ~cyc[c].flagAtDone /\ ~_uploading

\* C3: at most one cycle is past the guard and short of its doneCallback,
\* and _uploading is true exactly when there is one.
C3_FlagIffOneInFlight ==
    LET inflight == {k \in Calls : InFlight(k)}
    IN  /\ Cardinality(inflight) <= 1
        /\ _uploading <=> (Cardinality(inflight) = 1)

\* a cycle is waiting for its unlink after two later calls were turned away
C3_Witness ==
    /\ cyc[1].pc = "unlinkUploaded"
    /\ cyc[2].guardHit /\ cyc[3].guardHit
    /\ _uploading

\* C4: the capture file changes only by being created by the rename or by
\* being removed, and it is removed only when it is empty or when its
\* contents are those an upload function call was given and reported success
\* for.
C4_DeleteOnlyUploaded ==
    [][(capture.exists /\ capture' # capture) =>
        /\ capture' = Absent
        /\ \/ capture.data = <<>>
           \/ \E j \in Calls :
                cyc[j].upRes = "ok" /\ cyc[j].contents = capture.data]_vars

\* a capture file with lines was removed after a second attempt: the first
\* cycle's upload failed, a later one uploaded the same lines
C4_Witness ==
    \E j, k \in Calls :
        /\ cyc[j].upRes = "uploadError"
        /\ cyc[k].unlinkRes = "ok" /\ cyc[k].deleted.data # <<>>
        /\ cyc[k].deleted.data = cyc[j].contents
        /\ ~capture.exists

\* cycle k calls doneCallback in this step
DoneStep(k) == cyc[k].pc # "done" /\ cyc'[k].pc = "done"

\* C5: when the upload function reports an error, the cycle calls
\* doneCallback with that error in the same step and has issued no unlink,
\* and the capture file is then in place with exactly the contents the upload
\* function was given.
C5_UploadErrorKeepsCapture ==
    [][\A k \in Calls :
        (cyc[k].upRes = "none" /\ cyc'[k].upRes = "uploadError") =>
            /\ DoneStep(k)
            /\ cyc'[k].err = "uploadError"
            /\ ~Has(cyc'[k].ops, "unlink")
            /\ cyc'[k].contents # <<>>
            /\ capture' = File(cyc'[k].contents)]_vars

\* an upload error was reported for a capture file of two lines, which is
\* still there
C5_Witness ==
    \E k \in Calls :
        /\ cyc[k].upRes = "uploadError"
        /\ cyc[k].pc = "done" /\ cyc[k].err = "uploadError"
        /\ Len(cyc[k].contents) = 2
        /\ capture = File(cyc[k].contents)

\* C6 (as claimed): in a cycle of uploadLoop with the stackdriver backend, when
\* uploadToStackdriver reports an error (missing apiKey, request error, http
\* status >= 300) the cycle issues no unlink and, when it ends, ends with an
\* error.
C6_BackendErrorKeepsCapture ==
    \A k \in Calls :
        cyc[k].sdRes \in {"missing apiKey", "requestError", "httpError"} =>
            /\ ~Has(cyc[k].ops, "unlink")
            /\ cyc[k].pc = "done" => cyc[k].err # "none"

\* C7 (as claimed): the first call after a cycle that ended with an upload
\* error reports no rotation error and hands the upload function the contents
\* the failed cycle was given, whether the journal is absent or present then
\* (the rename and the read not failing for a reason of their own).
C7_RetryAfterUploadError ==
    \A j, k \in Calls :
        ( /\ cyc[j].upRes = "uploadError"
          /\ NextCallAfter(j, k)
          /\ cyc[k].pc = "done"
          /\ cyc[k].renameRes # "EACCES"
          /\ cyc[k].readRes # "EIO" ) =>
            /\ cyc[k].renameRes = "EEXIST"
            /\ cyc[k].err \notin {"ENOENT", "EEXIST", "EACCES"}
            /\ Has(cyc[k].ops, "upload")
            /\ cyc[k].contents = cyc[j].contents

\* C8: a cycle that rotated the journal, uploaded and unlinked, with nothing
\* logged between its call and its end, calls doneCallback with no error and
\* with neither the journal nor the capture file in place.
C8_SuccessLeavesNoFiles ==
    [][\A k \in Calls :
        ( /\ DoneStep(k)
          /\ cyc'[k].renameRes = "ok"
          /\ cyc'[k].upRes = "ok"
          /\ cyc'[k].unlinkRes = "ok"
          /\ nlog' = cyc'[k].logAtCall ) =>
            /\ cyc'[k].err = "none"
            /\ ~journal'.exists
            /\ ~capture'.exists]_vars

\* such a cycle has ended, having uploaded two lines
C8_Witness ==
    \E k \in Calls :
        /\ cyc[k].pc = "done"
        /\ cyc[k].renameRes = "ok"
        /\ cyc[k].upRes = "ok"
        /\ cyc[k].unlinkRes = "ok"
        /\ nlog = cyc[k].logAtCall
        /\ Len(cyc[k].contents) = 2
        /\ ~journal.exists /\ ~capture.exists

\* C9: a cycle whose rename reports EEXIST does not end with a rotation
\* error: it issues the read; after a successful read of lines it hands the
\* upload function the lines of the capture file the rename found; after a
\* successful upload it issues the unlink; and after a successful unlink it
\* has removed that file and ends with no error.
C9_ExistingCaptureProcessed ==
    \A k \in Calls :
        cyc[k].renameRes = "EEXIST" =>
            /\ cyc[k].capAtRename.exists
            /\ Len(cyc[k].ops) >= 2 /\ cyc[k].ops[2] = "read"
            /\ cyc[k].err \notin {"EEXIST", "ENOENT", "EACCES"}
            /\ (cyc[k].readRes = "ok" /\ cyc[k].capAtRename.data # <<>>) =>
                    /\ Has(cyc[k].ops, "upload")
                    /\ cyc[k].contents = cyc[k].capAtRename.data
            /\ cyc[k].upRes = "ok" => Has(cyc[k].ops, "unlink")
            /\ cyc[k].unlinkRes = "ok" =>
                    /\ cyc[k].pc = "done"
                    /\ cyc[k].err = "none"
                    /\ cyc[k].deleted = cyc[k].capAtRename

\* a cycle found journal.up in place beside a journal with a line, uploaded
\* the old file and removed it
C9_Witness ==
    \E k \in Calls :
        /\ cyc[k].renameRes = "EEXIST"
        /\ cyc[k].upRes = "ok"
        /\ cyc[k].unlinkRes = "ok"
        /\ cyc[k].contents # <<>>
        /\ cyc[k].pc = "done"
        /\ journal.exists /\ journal.data # <<>> /\ ~capture.exists

\* C10: no step of a cycle whose rename found journal.up in place changes the
\* journal (so it ends as it was at the call plus the lines logged since),
\* and the contents such a cycle hands to the upload function hold none of
\* the journal's lines.
C10_JournalUntouched ==
    [][\A k \in Calls :
        ( /\ cyc'[k] # cyc[k]
          /\ cyc'[k].renameRes # "none"
          /\ cyc'[k].capAtRename.exists ) =>
            /\ journal' = journal
            /\ LinesOf(cyc'[k].contents) \cap LinesOf(journal'.data) = {}]_vars

\* such a cycle uploaded the old file while the journal held a line of its
\* own, and the journal is still there with that line
C10_Witness ==
    \E k \in Calls :
        /\ cyc[k].pc = "done"
        /\ cyc[k].renameRes = "EEXIST"
        /\ cyc[k].upRes = "ok"
        /\ cyc[k].contents # <<>>
        /\ journal.exists /\ Len(journal.data) = 1

\* C11: when the rename completes with neither the journal nor journal.up in
\* place, it reports an error (ENOENT for the missing source, unless the
\* rename fails for another reason) and the cycle calls doneCallback with that
\* error in the same step; the rename is the only operation the cycle has
\* issued (no read, no upload, no unlink) and no journal.up has been created.
C11_MissingJournalReported ==
    [][\A k \in Calls :
        ( /\ cyc[k].pc = "rename" /\ cyc'[k].pc # "rename"
          /\ ~journal.exists /\ ~capture.exists ) =>
            /\ DoneStep(k)
            /\ cyc'[k].renameRes \in {"ENOENT", "EACCES"}
            /\ cyc'[k].err = cyc'[k].renameRes
            /\ cyc'[k].ops = <<"rename">>
            /\ cyc'[k].upRes = "none"
            /\ ~capture'.exists /\ ~journal'.exists
            /\ ~_uploading']_vars

\* a cycle on a missing journal has ended with ENOENT after its rename alone,
\* and there is still no file
C11_Witness ==
    \E k \in Calls :
        /\ cyc[k].pc = "done"
        /\ cyc[k].renameRes = "ENOENT" /\ cyc[k].err = "ENOENT"
        /\ ~cyc[k].capAtRename.exists
        /\ cyc[k].ops = <<"rename">>
        /\ nlog = 0 /\ ~journal.exists /\ ~capture.exists

\* C12: once uploadLoop has been called without a backendConfig or with a
\* backend name other than 'stackdriver', the call has thrown: there is no
\* timer, no cycle has started or ever starts, and the flag is not set.
C12_UploadLoopFailsFast ==
    ( /\ uploader # "notCalled"
      /\ (~backendConfig.present \/ backendName # "stackdriver") ) =>
        /\ uploader = "thrown"
        /\ \A k \in Calls : cyc[k].pc = "new" /\ cyc[k].ops = <<>>
        /\ ~_uploading

\* uploadLoop was called with a backendConfig and the backend name 'statsd'
\* and threw, with lines waiting in the journal
C12_Witness ==
    /\ uploader = "thrown"
    /\ backendConfig = Config(TRUE)
    /\ backendName = "statsd"
    /\ nlog = MaxLines

\* C13: in uploadLoop, the step in which a cycle calls doneCallback with an
\* error hands onError one more message ("stats upload error: ..."), leaves
\* the timer as it is and the flag false; and a tick that comes when no cycle
\* is in flight, after some cycle ended with an error, passes the guard and
\* issues its rename.
C13_ErrorsReportedLoopGoesOn ==
    [][/\ \A k \in Calls :
            (DoneStep(k) /\ cyc'[k].err # "none") =>
                /\ cyc'[k].onError = Append(cyc[k].onError, "stats upload error")
                /\ uploader' = uploader
                /\ ~_uploading'
       /\ \A k \in Calls :
            ( /\ cyc[k].pc = "new" /\ cyc'[k].pc # "new"
              /\ \A j \in Calls : ~InFlight(j)
              /\ \E j \in Calls : cyc[j].pc = "done" /\ cyc[j].err # "none" ) =>
                /\ ~cyc'[k].guardHit
                /\ cyc'[k].pc = "rename"
                /\ _uploading']_vars

\* a cycle of the loop ended with a read error that onError was told of, and
\* the next tick has started a cycle that is now reading, the timer still
\* armed
C13_Witness ==
    \E j, k \in Calls :
        /\ j < k
        /\ cyc[j].pc = "done" /\ cyc[j].err = "EIO"
        /\ cyc[j].onError = <<"stats upload error">>
        /\ cyc[k].pc = "read" /\ ~cyc[k].guardHit
        /\ uploader = "armed"

\* C14 (as claimed): after clearInterval no tick starts a cycle, and a cycle in
\* flight when the timer is cleared goes on to an exit that clears the flag
\* (every issued file operation and http exchange completing).
C14_CancelStopsTicksOnly ==
    /\ [][uploader = "cleared" =>
            \A k \in Calls : cyc[k].pc = "new" => cyc'[k].pc = "new"]_vars
    /\ (uploader = "cleared" /\ \E k \in Calls : InFlight(k)) ~> ~_uploading

\* the last call was one of _parseJournalStackdriverContents
Parsed == call.op = "_parseJournalStackdriverContents"

NonEmptyLine(line) == line # <<Empty>>

\* the non-empty lines of the contents, in their order
NonEmptyLines(journalContents) == SelectSeq(journalContents, NonEmptyLine)

\* the record a line of three fields or more stands for
RecordOf(line, now) ==
    [name |-> line[2], value |-> line[3].float.v,
     collected_at |-> unixTimestamp(line[1], now)]

\* the records of a sequence of lines
RecordsOf(lines, now) == [j \in 1..Len(lines) |-> RecordOf(lines[j], now)]

\* now minus 7202 seconds, in milliseconds
Threshold(now) == Num(BigAdd(now.q, 0 - StaleSeconds), now.r)

\* the validity rule: exactly 3 fields, the normalized timestamp strictly
\* greater than the normalized threshold, a finite value
RuleValid(line, now) ==
    /\ Len(line) = 3
    /\ BigLess(unixTimestamp(Number(Threshold(now)), now),
               unixTimestamp(line[1], now))
    /\ line[3].float.kind = "finite"

\* the line's record is in the returned data
InData(line, now, data) ==
    Len(line) >= 3 /\ \E j \in DOMAIN data : data[j] = RecordOf(line, now)

\* C15: after _parseJournalStackdriverContents, a non-empty line of the
\* contents has its record in the returned data if and only if it has exactly
\* 3 fields, its first field normalizes (unixTimestamp) to more than the
\* normalized now - 7202 s, and parseFloat of its third field is finite; the
\* data holds one record for each such line and nothing else.
C15_ValidIffRule ==
    Parsed =>
        LET lines == NonEmptyLines(call.journalContents)
        IN  /\ \A i \in DOMAIN lines :
                InData(lines[i], call.now, call.ret) <=> RuleValid(lines[i], call.now)
            /\ Len(call.ret) =
                Cardinality({i \in DOMAIN lines : RuleValid(lines[i], call.now)})

\* a line of four fields whose first three make a valid line was parsed and
\* rejected
C15_Witness ==
    /\ Parsed
    /\ call.journalContents =
        << <<DateStr(At(0, 0), 2026), Word("unit.test.mem_rss"),
             Digits(3, ToNum(111)), Digits(3, ToNum(111))>> >>
    /\ call.ret = <<>>
    /\ call.before = ArrayStore(<<>>)
    /\ rejectedJournalLines = ArrayStore(call.journalContents)

\* a < b for two counts of milliseconds
NumLess(a, b) == BigLess(a.q, b.q) \/ (a.q = b.q /\ a.r < b.r)

\* the time a timestamp string denotes, in milliseconds: a date string its
\* date, ten digits that many seconds, other digits that many milliseconds
DenotedTime(s) ==
    IF s.kind = "digits" /\ s.len = 10 THEN Num(Integer(s.n), 0) ELSE s.n

\* C16 (as claimed): a non-empty line whose first field denotes a time older
\* than now - 7202 s has no record in the data returned by
\* _parseJournalStackdriverContents.
C16_StaleAlwaysRejected ==
    Parsed =>
        \A i \in DOMAIN call.journalContents :
            LET line == call.journalContents[i]
            IN  ( /\ NonEmptyLine(line)
                  /\ line[1].kind \in {"date", "digits"}
                  /\ NumLess(DenotedTime(line[1]), Threshold(call.now)) ) =>
                    ~InData(line, call.now, call.ret)

\* C17: with a store installed, _parseJournalStackdriverContents splits the
\* non-empty lines in two: the returned data is the records of one part in
\* the order of the lines, and the store is what it held before followed by
\* the lines of the other part, as they were, in the order of the lines.
C17_PartitionInOrder ==
    (Parsed /\ call.before.isArray) =>
        LET lines == NonEmptyLines(call.journalContents)
        IN  \E V \in SUBSET {i \in DOMAIN lines : Len(lines[i]) >= 3} :
                /\ call.ret = RecordsOf(SubSeqAt(lines, V), call.now)
                /\ rejectedJournalLines =
                    ArrayStore(call.before.lines
                               \o SubSeqAt(lines, (DOMAIN lines) \ V))

\* three lines were parsed, two valid ones around a stale one, with one
\* reject already in the store: two records in order, two rejects in order
C17_Witness ==
    /\ Parsed
    /\ Len(call.journalContents) = 3
    /\ call.journalContents[1] # call.journalContents[3]
    /\ Len(call.journalContents[1]) = 3 /\ Len(call.journalContents[3]) = 3
    /\ Len(call.before.lines) = 1
    /\ Len(call.ret) = 2
    /\ call.ret[1] = RecordOf(call.journalContents[1], call.now)
    /\ call.ret[2] = RecordOf(call.journalContents[3], call.now)
    /\ rejectedJournalLines.lines = call.before.lines \o <<call.journalContents[2]>>

\* a timestamp argument of logStat lies in the two hours before the call:
\* undefined (the time of the call), or a date or digits denoting a time
\* after now - 7200 s and not after now
InWindow(timestamp, now) ==
    \/ timestamp.type = "undefined"
    \/ /\ timestamp.kind \in {"date", "digits"}
       /\ NumLess(Num(BigAdd(now.q, 0 - WindowSeconds), now.r), DenotedTime(timestamp))
       /\ ~NumLess(now, DenotedTime(timestamp))

\* C18: when logStat is called with a name and a timestamp without a blank, a
\* finite value and a timestamp within the last two hours, parsing what it
\* wrote returns exactly one record, with the name prefix + name, the value
\* logged and collected_at = unixTimestamp(timestamp), and the reject store
\* is as it was.
C18_LogStatRoundTrip ==
    ( /\ call.op = "logStat"
      /\ Len(call.name) = 1 /\ Len(call.timestampString) = 1
      /\ call.value.kind = "finite"
      /\ InWindow(call.timestampString[1], call.now) ) =>
        /\ call.ret = <<[name |-> Prefixed(call.prefix, call.name[1]),
                         value |-> call.value.v,
                         collected_at |->
                            unixTimestamp(call.timestampString[1], call.now)]>>
        /\ rejectedJournalLines = call.before

\* logStat('mem_rss', -5, <13 digits of a minute ago>) was parsed back into
\* one record, the store still holding its one earlier reject
C18_Witness ==
    /\ call.op = "logStat"
    /\ call.name = <<Word("mem_rss")>>
    /\ call.value = Finite(ToNum(0 - 5))
    /\ call.timestampString = <<Digits(13, At(0 - 60, 0))>>
    /\ Len(call.ret) = 1
    /\ call.ret[1].collected_at = BigAdd(ToBig(NowSeconds), 0 - 60)
    /\ Len(call.before.lines) = 1
    /\ rejectedJournalLines = call.before

\* C19 (as claimed): unixTimestamp returns floor(ms / 1000) for a number ms,
\* the integer denoted for a string of 10 digits, and floor(value / 1000) for
\* a string of digits of another length, whatever the sign and the size.
C19_UnixTimestampFloors ==
    call.op = "unixTimestamp" =>
        /\ call.timestamp.type = "number" => call.ret = call.timestamp.n.q
        /\ (call.timestamp.kind = "digits" /\ call.timestamp.len = 10) =>
                call.ret = Integer(call.timestamp.n)
        /\ (call.timestamp.kind = "digits" /\ call.timestamp.len # 10) =>
                call.ret = call.timestamp.n.q

\* the store a rejectedLines argument installs
Installed(newSaveToArray) ==
    IF newSaveToArray.kind = "undefined" THEN ArrayStore(<<>>) ELSE newSaveToArray.store

\* C20: a call of rejectedLines returns the store that was configured before
\* it, as it was; with an array or no argument the store afterwards is that
\* array or a new empty one, and with false it is unchanged.  After a call
\* that installed a store, rejectedLines(false) returns the installed store,
\* and a parse finds it and pushes its rejects onto it.
C20_SwapReturnsPrevious ==
    [][/\ (call'.op = "rejectedLines" /\ call' # call) =>
            /\ call'.ret = rejectedJournalLines
            /\ call'.newSaveToArray.kind \in {"array", "undefined"} =>
                    rejectedJournalLines' = Installed(call'.newSaveToArray)
            /\ call'.newSaveToArray.kind = "false" =>
                    rejectedJournalLines' = rejectedJournalLines
       /\ ( /\ call.op = "rejectedLines"
            /\ call.newSaveToArray.kind \in {"array", "undefined"}
            /\ call' # call ) =>
            /\ (call'.op = "rejectedLines" /\ call'.newSaveToArray.kind = "false") =>
                    call'.ret = Installed(call.newSaveToArray)
            /\ call'.op \in {"_parseJournalStackdriverContents", "logStat"} =>
                    /\ call'.before = Installed(call.newSaveToArray)
                    /\ rejectedJournalLines'.isArray
                    /\ Len(rejectedJournalLines'.lines) >= Len(call'.before.lines)
                    /\ SubSeq(rejectedJournalLines'.lines, 1, Len(call'.before.lines))
                            = call'.before.lines]_vars

\* rejectedLines(arr) on a store holding a reject, then rejectedLines(false):
\* the second call returned arr and the store is arr
C20_Witness ==
    /\ call.op = "rejectedLines"
    /\ call.seq = 2
    /\ call.newSaveToArray.kind = "false"
    /\ call.ret = ArrayStore(<< <<Word("mine")>> >>)
    /\ rejectedJournalLines = call.ret

\* the step is a call of rejectedLines(false)
FalseCall == call' # call /\ call'.op = "rejectedLines" /\ call'.newSaveToArray.kind = "false"

\* C21: a call of rejectedLines(false) returns the configured store and
\* leaves it as it is, so a second rejectedLines(false) right after returns
\* the same store with the same contents.
C21_FalseChangesNothing ==
    [][FalseCall =>
        /\ call'.ret = rejectedJournalLines
        /\ rejectedJournalLines' = rejectedJournalLines
        /\ (call.op = "rejectedLines" /\ call.newSaveToArray.kind = "false") =>
                call'.ret = call.ret]_vars

\* rejectedLines(false) was called twice in a row on a store holding one
\* reject: both calls returned it and it is still the store
C21_Witness ==
    /\ call.op = "rejectedLines"
    /\ call.seq = 2
    /\ call.newSaveToArray.kind = "false"
    /\ call.ret = ArrayStore(<< <<Word("rejected")>> >>)
    /\ rejectedJournalLines = call.ret

\* cycle k issues an operation in this step
Issues(k, op) == cyc'[k].ops = Append(cyc[k].ops, op)

\* C24: a cycle issues its operations one at a time, each in the step in which
\* the result of the one before is known: the rename first; the read after
\* the rename reported success or EEXIST; the upload function once, after the
\* read returned contents that are not empty, with those contents; the unlink
\* after the upload function reported success, or after the read returned
\* empty contents.  The capture file is removed only by the completion of
\* such an unlink.
C24_StepsInOrder ==
    [][/\ \A k \in Calls :
            cyc'[k].ops # cyc[k].ops =>
                \/ Issues(k, "rename") /\ cyc[k].ops = <<>>
                \/ /\ Issues(k, "read") /\ cyc[k].ops = <<"rename">>
                   /\ cyc[k].renameRes = "none"
                   /\ cyc'[k].renameRes \in {"ok", "EEXIST"}
                \/ /\ Issues(k, "upload") /\ cyc[k].ops = <<"rename", "read">>
                   /\ cyc[k].readRes = "none" /\ cyc'[k].readRes = "ok"
                   /\ cyc'[k].contents = capture.data /\ capture.data # <<>>
                \/ /\ Issues(k, "unlink") /\ cyc[k].ops = <<"rename", "read", "upload">>
                   /\ cyc[k].upRes = "none" /\ cyc'[k].upRes = "ok"
                \/ /\ Issues(k, "unlink") /\ cyc[k].ops = <<"rename", "read">>
                   /\ cyc[k].readRes = "none" /\ cyc'[k].readRes = "ok"
                   /\ capture.data = <<>>
       /\ (capture.exists /\ ~capture'.exists) =>
            \E k \in Calls :
                /\ Has(cyc[k].ops, "unlink")
                /\ cyc[k].unlinkRes = "none" /\ cyc'[k].unlinkRes = "ok"]_vars

\* a cycle went through all four operations and ended without error
C24_Witness ==
    \E k \in Calls :
        /\ cyc[k].ops = <<"rename", "read", "upload", "unlink">>
        /\ cyc[k].pc = "done" /\ cyc[k].err = "none"
        /\ cyc[k].doneCalls = 1

\* C25: when the read of the capture file succeeds and the file is empty, the
\* cycle issues the unlink in that step and not the upload; when that unlink
\* completes the cycle ends without ever having called the upload function,
\* and, the unlink having succeeded, with no error and no capture file.
C25_EmptyCaptureDeleted ==
    [][\A k \in Calls :
        /\ ( /\ cyc[k].pc = "read" /\ cyc'[k].readRes = "ok"
             /\ capture.data = <<>> ) =>
                /\ cyc'[k].ops = <<"rename", "read", "unlink">>
                /\ cyc'[k].pc # "done"
                /\ cyc'[k].upRes = "none"
        /\ ( /\ cyc[k].ops = <<"rename", "read", "unlink">>
             /\ cyc'[k] # cyc[k] ) =>
                /\ DoneStep(k)
                /\ cyc'[k].ops = cyc[k].ops
                /\ cyc'[k].upRes = "none"
                /\ cyc'[k].unlinkRes = "ok" =>
                        cyc'[k].err = "none" /\ ~capture'.exists]_vars

\* a cycle rotated an empty journal, removed the empty capture file and ended
\* without error and without an upload
C25_Witness ==
    \E k \in Calls :
        /\ cyc[k].pc = "done" /\ cyc[k].err = "none"
        /\ cyc[k].renameRes = "ok" /\ cyc[k].readRes = "ok"
        /\ cyc[k].ops = <<"rename", "read", "unlink">>
        /\ cyc[k].unlinkRes = "ok"
        /\ cyc[k].deleted = File(<<>>)
        /\ ~capture.exists

\* C26: when the read of the capture file fails, the cycle calls doneCallback
\* in that step with the read error, having issued the rename and the read
\* only, and the capture file is left as it was; the rename of the next
\* cycle finds it in place.
C26_ReadErrorKeepsCapture ==
    /\ [][\A k \in Calls :
            (cyc[k].pc = "read" /\ cyc'[k].readRes \notin {"none", "ok"}) =>
                /\ DoneStep(k)
                /\ cyc'[k].err = cyc'[k].readRes
                /\ cyc'[k].ops = <<"rename", "read">>
                /\ cyc'[k].upRes = "none"
                /\ capture.exists /\ capture' = capture]_vars
    /\ [](\A j, k \in Calls :
            ( /\ cyc[j].readRes \notin {"none", "ok"}
              /\ NextCallAfter(j, k)
              /\ cyc[k].renameRes # "none" ) =>
                /\ cyc[k].capAtRename.exists
                /\ cyc[k].renameRes \in {"EEXIST", "EACCES", "ENOENT"})

\* a cycle ended with a read error and the next one found the capture file,
\* read it and handed its two lines to the upload function
C26_Witness ==
    \E j, k \in Calls :
        /\ cyc[j].pc = "done" /\ cyc[j].err = "EIO"
        /\ cyc[j].ops = <<"rename", "read">>
        /\ NextCallAfter(j, k)
        /\ cyc[k].renameRes = "EEXIST" /\ cyc[k].readRes = "ok"
        /\ Len(cyc[k].contents) = 2
        /\ cyc[k].contents = cyc[k].capAtRename.data

\* the annotation of the step whose error ended cycle k
StepAnnotation(k) ==
    IF cyc[k].renameRes \notin {"none", "ok", "EEXIST"}
    THEN "error reading stats logfile journal"
    ELSE IF cyc[k].readRes \notin {"none", "ok"}
    THEN "error reading stats logfile journal.up"
    ELSE IF cyc[k].upRes \notin {"none", "ok"}
    THEN "error uploading stats to stackdriver: response"
    ELSE IF Has(cyc[k].ops, "upload")
    THEN "unable to remove uploaded stats file journal.up"
    ELSE "unable to remove empty stats file journal.up"

\* C27: the error a cycle hands to doneCallback carries in debug the
\* annotation of the step that failed (rename, read, upload, unlink of the
\* empty file, unlink of the uploaded file).  When the unlink after a
\* successful upload fails, doneCallback gets the unlink's error so annotated
\* in that step, the upload function has been called once in the cycle, and
\* the capture file is still in place with the uploaded contents.
C27_ErrorsAnnotated ==
    /\ [](\A k \in Calls :
            (cyc[k].pc = "done" /\ cyc[k].err # "none") =>
                cyc[k].debug = StepAnnotation(k))
    /\ [][\A k \in Calls :
            ( /\ cyc[k].pc = "unlinkUploaded" /\ cyc'[k] # cyc[k]
              /\ cyc'[k].unlinkRes # "ok" ) =>
                /\ DoneStep(k)
                /\ cyc'[k].err = cyc'[k].unlinkRes
                /\ cyc'[k].debug = "unable to remove uploaded stats file journal.up"
                /\ cyc'[k].ops = <<"rename", "read", "upload", "unlink">>
                /\ capture' = File(cyc'[k].contents)]_vars

\* the unlink after an upload failed with its annotation, and the next cycle
\* uploaded the same contents again
C27_Witness ==
    \E j, k \in Calls :
        /\ cyc[j].pc = "done" /\ cyc[j].upRes = "ok" /\ cyc[j].err = "EPERM"
        /\ cyc[j].debug = "unable to remove uploaded stats file journal.up"
        /\ NextCallAfter(j, k)
        /\ cyc[k].upRes = "ok" /\ cyc[k].contents = cyc[j].contents

\* C28: under FairSpec, doneCallback is never invoked twice for one call, has
\* been invoked once exactly when the call has ended, and every call that was
\* made ends with doneCallback invoked once.
C28_DoneExactlyOnce ==
    /\ [](\A k \in Calls :
            /\ cyc[k].doneCalls <= 1
            /\ cyc[k].pc = "done" <=> cyc[k].doneCalls = 1)
    /\ \A k \in Calls : (cyc[k].pc # "new") ~> (cyc[k].doneCalls = 1)

\* three calls have ended, one at the guard, one with an upload error, one
\* after a successful upload and unlink, each with doneCallback invoked once
C28_Witness ==
    \E a, b, c \in Calls :
        /\ cyc[a].guardHit /\ cyc[a].doneCalls = 1
        /\ cyc[b].upRes = "uploadError" /\ cyc[b].doneCalls = 1
        /\ cyc[c].upRes = "ok" /\ cyc[c].unlinkRes = "ok" /\ cyc[c].doneCalls = 1

\* the last call was one of uploadToStackdriver
Uploaded == call.op = "uploadToStackdriver"

\* C22: uploadToStackdriver called with a config without apiKey has called
\* back once, at once, with the error "missing apiKey", has sent no request,
\* and has left the rejection store as it was (nothing was parsed); no network
\* event follows.
C22_MissingKeyFailsAtOnce ==
    (Uploaded /\ ~call.backendConfig.apiKey) =>
        /\ call.cbs = <<Cb("missing apiKey", "undefined")>>
        /\ call.posts = 0 /\ call.data = <<>>
        /\ rejectedJournalLines = call.before
        /\ call.res = "none" /\ ~call.reqError

\* a call without apiKey on contents with a line the parser would reject, on
\* a logger with a store installed
C22_Witness ==
    /\ Uploaded /\ ~call.backendConfig.apiKey
    /\ call.before = ArrayStore(<<>>)
    /\ \E i \in DOMAIN call.journalContents :
        /\ NonEmptyLine(call.journalContents[i])
        /\ ~RuleValid(call.journalContents[i], call.now)
    /\ Len(call.cbs) = 1

\* some line of the contents is a valid record
HasValid(journalContents, now) ==
    \E i \in DOMAIN journalContents :
        NonEmptyLine(journalContents[i]) /\ RuleValid(journalContents[i], now)

\* C23: uploadToStackdriver called with an apiKey on contents that hold no
\* valid record (empty, malformed and stale lines only) has called back once
\* with no error and the empty result and has sent no request; on contents
\* with a valid record it has sent exactly one POST, of the parsed data.
C23_NoDataNoRequest ==
    (Uploaded /\ call.backendConfig.apiKey) =>
        IF HasValid(call.journalContents, call.now)
        THEN /\ call.posts = 1
             /\ call.data = _parseJournalStackdriverContents(
                                call.journalContents, call.before, call.now).data
             /\ call.data # <<>>
        ELSE /\ call.posts = 0
             /\ call.cbs = <<Cb("none", "{}")>>
             /\ call.res = "none" /\ ~call.reqError

\* a call with an apiKey on a stale line, a malformed line and an empty line
\* called back with the empty result and sent nothing
C23_Witness ==
    /\ Uploaded /\ call.backendConfig.apiKey
    /\ Len(call.journalContents) = 3
    /\ ~HasValid(call.journalContents, call.now)
    /\ \E i \in DOMAIN call.journalContents : Len(call.journalContents[i]) = 3
    /\ \E i \in DOMAIN call.journalContents : Len(call.journalContents[i]) = 2
    /\ \E i \in DOMAIN call.journalContents : ~NonEmptyLine(call.journalContents[i])
    /\ call.posts = 0 /\ call.cbs = <<Cb("none", "{}")>>

\* C29 (as claimed): uploadToStackdriver never invokes its callback more than
\* once for one call, whatever the order of the network events.
C29_CallbackAtMostOnce ==
    Uploaded => Len(call.cbs) <= 1

\* C30 (as claimed): in uploadLoop, whatever the rejection store was at the
\* start (null included), a cycle in which uploadToStackdriver has called back
\* has had its upload callback called by the wrapper, which did not fault.
C30_CompletionCallsBack ==
    \A k \in Calls :
        cyc[k].sdRes # "none" => cyc[k].upRes = "ok" /\ cyc[k].pc # "thrown"

\* C31 (as claimed): with two loggers running cycles on the same journal
\* path, an unlink of a cycle of either logger that succeeds removes a capture
\* file that is empty or whose contents an upload function call of some cycle
\* was given and reported success for.
C31_PeersDeleteOnlyUploaded ==
    [][\A k \in Calls :
        (cyc[k].unlinkRes = "none" /\ cyc'[k].unlinkRes = "ok") =>
            \/ capture.data = <<>>
            \/ \E j \in Calls :
                    cyc[j].upRes = "ok" /\ cyc[j].contents = capture.data]_vars

====
